---- MODULE Spec2Model ----
(***************************************************************************)
(* SayHelloWorkflow (workflows.py): one workflow instance, its run         *)
(* coroutine, its signal_complete handler, the activity it invokes and the *)
(* host events (signal delivery, activity outcome, cancellation) that      *)
(* drive it.  The run coroutine is cut at its two awaits (line 22 and      *)
(* line 23); every segment between awaits, and the whole signal handler,   *)
(* is one atomic step of the cooperative scheduler.                        *)
(***************************************************************************)
EXTENDS Integers, Sequences, FiniteSets, TLC

\* ---------------------------------------------------------------- bounds
MaxSignals == 3       \* signals accepted by one instance
MaxRejected == 1      \* signals sent to an instance that has already closed
MaxLateCancels == 1   \* cancellations requested after the instance closed

\* ------------------------------------------------------------ input sets
Names == {"World", "Alice"}                  \* the argument of run
Results == {"Hello, World!", "Hello, Alice!"} \* what the activity may return
Users == {"u1", "u2"}                        \* values the host puts in user_id
Failures == {"error", "timeout"}             \* the two kinds of ActivityFailure

\* timedelta(minutes=5), in seconds
StartToCloseTimeout == 300

\* the value of a result / activity_result that has not been assigned
Absent == "<absent>"

VARIABLES
    input_name,     \* the name passed to run
    _complete,      \* self._complete
    pc,             \* position of the run coroutine
    user_id,        \* the user_id context variable as the run coroutine sees it
    trace,          \* the statements with an outside effect, in execution order
    invocations,    \* the calls of execute_activity: <<name, timeout>>
    act_state,      \* the activity invocation
    act_value,      \* what the invoker produced: a result or a failure kind
    activity_result,\* the local activity_result of run
    result,         \* the value run returned
    pending,        \* signals queued by the host, handler not yet run
    delivered,      \* signals accepted so far
    handled,        \* signal_complete handler executions so far
    rejected,       \* signals refused because the instance had closed
    late_cancels,   \* cancellations requested after the instance had closed
    cancelled_at    \* the await at which the run coroutine was cancelled

vars == <<input_name, _complete, pc, user_id, trace, invocations, act_state,
          act_value, activity_result, result, pending, delivered, handled,
          rejected, late_cancels, cancelled_at>>

\* the fields and outputs of the instance itself (not the host's queues)
instance == <<input_name, _complete, pc, user_id, trace, invocations, result,
              cancelled_at>>

Closed == {"completed", "failed", "cancelled"}

Event(by, line, op, val) == [by |-> by, line |-> line, op |-> op, val |-> val]

\* variant of Init: __init__ sets self._complete = True
Init_complete_true ==
    /\ input_name \in Names
    /\ _complete = TRUE
    /\ pc = "start"
    /\ user_id \in Users
    /\ trace = <<>>
    /\ invocations = <<>>
    /\ act_state = "none"
    /\ act_value = Absent
    /\ activity_result = Absent
    /\ result = Absent
    /\ pending = 0
    /\ delivered = 0
    /\ handled = 0
    /\ rejected = 0
    /\ late_cancels = 0
    /\ cancelled_at = "none"

\* SayHelloWorkflow.__init__ and the start request
Init ==
    /\ input_name \in Names
    /\ _complete = FALSE
    /\ pc = "start"
    /\ user_id \in Users
    /\ trace = <<>>
    /\ invocations = <<>>
    /\ act_state = "none"
    /\ act_value = Absent
    /\ activity_result = Absent
    /\ result = Absent
    /\ pending = 0
    /\ delivered = 0
    /\ handled = 0
    /\ rejected = 0
    /\ late_cancels = 0
    /\ cancelled_at = "none"

\* variant of run_entry: the flag is initialised in run instead of __init__
run_entry_resets_flag ==
    /\ pc = "start"
    /\ trace' = trace \o << Event("run", 17, "log", user_id),
                            Event("run", 19, "set_user_id", "random"),
                            Event("run", 22, "wait_condition", "") >>
    /\ user_id' = "random"
    /\ _complete' = FALSE
    /\ pc' = "waiting"
    /\ UNCHANGED <<input_name, invocations, act_state,
                   act_value, activity_result, result, pending, delivered,
                   handled, rejected, late_cancels, cancelled_at>>

\* variant of run_entry: an await between line 17 and line 19, so that run
\* yields to the scheduler after its first log
run_entry_yields ==
    /\ pc = "start"
    /\ IF \A i \in DOMAIN trace : trace[i].line # 17
       THEN /\ trace' = Append(trace, Event("run", 17, "log", user_id))
            /\ UNCHANGED <<user_id, pc>>
       ELSE /\ trace' = trace \o
                    << Event("run", 19, "set_user_id", "random"),
                       Event("run", 22, "wait_condition", "") >>
            /\ user_id' = "random"
            /\ pc' = "waiting"
    /\ UNCHANGED <<input_name, _complete, invocations, act_state,
                   act_value, activity_result, result, pending, delivered,
                   handled, rejected, late_cancels, cancelled_at>>

\* variant of run_entry: user_id.set("random") moved above the first log
run_entry_set_first ==
    /\ pc = "start"
    /\ trace' = trace \o << Event("run", 19, "set_user_id", "random"),
                            Event("run", 17, "log", "random"),
                            Event("run", 22, "wait_condition", "") >>
    /\ user_id' = "random"
    /\ pc' = "waiting"
    /\ UNCHANGED <<input_name, _complete, invocations, act_state,
                   act_value, activity_result, result, pending, delivered,
                   handled, rejected, late_cancels, cancelled_at>>

\* run, lines 17-22: log, user_id.set("random"), suspend on wait_condition
run_entry ==
    /\ pc = "start"
    /\ trace' = trace \o << Event("run", 17, "log", user_id),
                            Event("run", 19, "set_user_id", "random"),
                            Event("run", 22, "wait_condition", "") >>
    /\ user_id' = "random"
    /\ pc' = "waiting"
    /\ UNCHANGED <<input_name, _complete, invocations, act_state,
                   act_value, activity_result, result, pending, delivered,
                   handled, rejected, late_cancels, cancelled_at>>

\* variant of run_resume: execute_activity without the wait_condition of
\* line 22
run_resume_no_wait ==
    /\ pc = "waiting"
    /\ invocations' = Append(invocations, <<input_name, StartToCloseTimeout>>)
    /\ trace' = Append(trace, Event("run", 23, "execute_activity", input_name))
    /\ act_state' = "running"
    /\ pc' = "activity"
    /\ UNCHANGED <<input_name, _complete, user_id, act_value, activity_result,
                   result, pending, delivered, handled, rejected, late_cancels,
                   cancelled_at>>

\* variant of run_resume: the log of line 26 placed before the await of
\* execute_activity instead of after it
run_resume_logs_early ==
    /\ pc = "waiting"
    /\ _complete
    /\ invocations' = Append(invocations, <<input_name, StartToCloseTimeout>>)
    /\ trace' = trace \o << Event("run", 26, "log", user_id),
                            Event("run", 23, "execute_activity", input_name) >>
    /\ act_state' = "running"
    /\ pc' = "activity"
    /\ UNCHANGED <<input_name, _complete, user_id, act_value, activity_result,
                   result, pending, delivered, handled, rejected, late_cancels,
                   cancelled_at>>

\* variant of run_resume: start_to_close_timeout=timedelta(seconds=5)
run_resume_five_seconds ==
    /\ pc = "waiting"
    /\ _complete
    /\ invocations' = Append(invocations, <<input_name, 5>>)
    /\ trace' = Append(trace, Event("run", 23, "execute_activity", input_name))
    /\ act_state' = "running"
    /\ pc' = "activity"
    /\ UNCHANGED <<input_name, _complete, user_id, act_value, activity_result,
                   result, pending, delivered, handled, rejected, late_cancels,
                   cancelled_at>>

\* run, lines 22-24: the wait condition holds, execute_activity is called and
\* the coroutine suspends on it
run_resume ==
    /\ pc = "waiting"
    /\ _complete
    /\ invocations' = Append(invocations, <<input_name, StartToCloseTimeout>>)
    /\ trace' = Append(trace, Event("run", 23, "execute_activity", input_name))
    /\ act_state' = "running"
    /\ pc' = "activity"
    /\ UNCHANGED <<input_name, _complete, user_id, act_value, activity_result,
                   result, pending, delivered, handled, rejected, late_cancels,
                   cancelled_at>>

\* variant of run_return: the flag is cleared once the activity is done
run_return_clears_flag ==
    /\ pc = "activity"
    /\ act_state = "returned"
    /\ activity_result' = act_value
    /\ trace' = trace \o << Event("run", 26, "log", user_id),
                            Event("run", 28, "return", activity_result') >>
    /\ result' = activity_result'
    /\ _complete' = FALSE
    /\ pc' = "completed"
    /\ UNCHANGED <<input_name, user_id, invocations, act_state,
                   act_value, pending, delivered, handled, rejected,
                   late_cancels, cancelled_at>>

\* variant of run_return: the greeting is built from name instead of being
\* taken from the activity
run_return_own_greeting ==
    /\ pc = "activity"
    /\ act_state = "returned"
    /\ activity_result' = IF input_name = "World" THEN "Hello, World!"
                                                  ELSE "Hello, Alice!"
    /\ trace' = trace \o << Event("run", 26, "log", user_id),
                            Event("run", 28, "return", activity_result') >>
    /\ result' = activity_result'
    /\ pc' = "completed"
    /\ UNCHANGED <<input_name, _complete, user_id, invocations, act_state,
                   act_value, pending, delivered, handled, rejected,
                   late_cancels, cancelled_at>>

\* run, lines 23-28: the activity returned; assign activity_result, log,
\* return it
run_return ==
    /\ pc = "activity"
    /\ act_state = "returned"
    /\ activity_result' = act_value
    /\ trace' = trace \o << Event("run", 26, "log", user_id),
                            Event("run", 28, "return", activity_result') >>
    /\ result' = activity_result'
    /\ pc' = "completed"
    /\ UNCHANGED <<input_name, _complete, user_id, invocations, act_state,
                   act_value, pending, delivered, handled, rejected,
                   late_cancels, cancelled_at>>

\* variant of run_raise: ActivityFailure caught, the flag cleared and run
\* goes back to waiting for a signal
run_raise_waits_again ==
    /\ pc = "activity"
    /\ act_state = "failed"
    /\ _complete' = FALSE
    /\ pc' = "waiting"
    /\ UNCHANGED <<input_name, user_id, trace, invocations,
                   act_state, act_value, activity_result, result, pending,
                   delivered, handled, rejected, late_cancels, cancelled_at>>

\* variant of run_raise: ActivityFailure caught around line 23 and a default
\* greeting returned
run_raise_caught ==
    /\ pc = "activity"
    /\ act_state = "failed"
    /\ activity_result' = "Hello, World!"
    /\ trace' = trace \o << Event("run", 26, "log", user_id),
                            Event("run", 28, "return", activity_result') >>
    /\ result' = activity_result'
    /\ pc' = "completed"
    /\ UNCHANGED <<input_name, _complete, user_id, invocations, act_state,
                   act_value, pending, delivered, handled, rejected,
                   late_cancels, cancelled_at>>

\* run, line 23: the await raises ActivityFailure; nothing in run catches it,
\* so lines 26-28 are skipped and the coroutine ends with the exception
run_raise ==
    /\ pc = "activity"
    /\ act_state = "failed"
    /\ pc' = "failed"
    /\ UNCHANGED <<input_name, _complete, user_id, trace, invocations,
                   act_state, act_value, activity_result, result, pending,
                   delivered, handled, rejected, late_cancels, cancelled_at>>

\* variant of signal_complete: the handler itself calls execute_activity
signal_complete_invokes(u) ==
    /\ pending > 0
    /\ pc \notin Closed
    /\ pending' = pending - 1
    /\ handled' = handled + 1
    /\ trace' = trace \o << Event("signal", 32, "log", u),
                            Event("signal", 33, "set_complete", "True") >>
    /\ _complete' = TRUE
    /\ invocations' = IF invocations = <<>>
                      THEN << <<input_name, StartToCloseTimeout>> >>
                      ELSE invocations
    /\ UNCHANGED <<input_name, pc, user_id, act_state, act_value,
                   activity_result, result, delivered, rejected, late_cancels,
                   cancelled_at>>

\* variant of signal_complete: the handler also runs for a signal still queued
\* when run has ended
signal_complete_after_close(u) ==
    /\ pending > 0
    /\ pending' = pending - 1
    /\ handled' = handled + 1
    /\ trace' = trace \o << Event("signal", 32, "log", u),
                            Event("signal", 33, "set_complete", "True") >>
    /\ _complete' = TRUE
    /\ UNCHANGED <<input_name, pc, user_id, invocations, act_state, act_value,
                   activity_result, result, delivered, rejected, late_cancels,
                   cancelled_at>>

\* variant of signal_complete: self._complete = not self._complete
signal_complete_toggle(u) ==
    /\ pending > 0
    /\ pc \notin Closed
    /\ pending' = pending - 1
    /\ handled' = handled + 1
    /\ trace' = trace \o << Event("signal", 32, "log", u),
                            Event("signal", 33, "set_complete", "True") >>
    /\ _complete' = ~_complete
    /\ UNCHANGED <<input_name, pc, user_id, invocations, act_state, act_value,
                   activity_result, result, delivered, rejected, late_cancels,
                   cancelled_at>>

\* signal_complete, lines 30-33: one handler execution for one queued signal;
\* u is the user_id value of the context the handler runs in
signal_complete(u) ==
    /\ pending > 0
    /\ pc \notin Closed
    /\ pending' = pending - 1
    /\ handled' = handled + 1
    /\ trace' = trace \o << Event("signal", 32, "log", u),
                            Event("signal", 33, "set_complete", "True") >>
    /\ _complete' = TRUE
    /\ UNCHANGED <<input_name, pc, user_id, invocations, act_state, act_value,
                   activity_result, result, delivered, rejected, late_cancels,
                   cancelled_at>>

\* a client sends signal_complete: queued while the instance is open (also
\* before the run coroutine has taken its first step), refused once closed
deliver_signal ==
    \/ /\ pc \notin Closed
       /\ delivered < MaxSignals
       /\ delivered' = delivered + 1
       /\ pending' = pending + 1
       /\ UNCHANGED <<input_name, _complete, pc, user_id, trace, invocations,
                      act_state, act_value, activity_result, result, handled,
                      rejected, late_cancels, cancelled_at>>
    \/ /\ pc \in Closed
       /\ rejected < MaxRejected
       /\ rejected' = rejected + 1
       /\ UNCHANGED <<input_name, _complete, pc, user_id, trace, invocations,
                      act_state, act_value, activity_result, result, pending,
                      delivered, handled, late_cancels, cancelled_at>>

\* the activity invoker returns r for the invocation in flight
activity_returns(r) ==
    /\ act_state = "running"
    /\ act_state' = "returned"
    /\ act_value' = r
    /\ UNCHANGED <<input_name, _complete, pc, user_id, trace, invocations,
                   activity_result, result, pending, delivered, handled,
                   rejected, late_cancels, cancelled_at>>

\* the activity invoker fails the invocation in flight (error or
\* start_to_close_timeout elapsed)
activity_fails(f) ==
    /\ act_state = "running"
    /\ act_state' = "failed"
    /\ act_value' = f
    /\ UNCHANGED <<input_name, _complete, pc, user_id, trace, invocations,
                   activity_result, result, pending, delivered, handled,
                   rejected, late_cancels, cancelled_at>>

\* the outcome of an activity whose workflow was cancelled arrives; nobody
\* awaits it any more
activity_abandoned(v) ==
    /\ act_state = "cancelling"
    /\ act_state' = "abandoned"
    /\ act_value' = v
    /\ UNCHANGED <<input_name, _complete, pc, user_id, trace, invocations,
                   activity_result, result, pending, delivered, handled,
                   rejected, late_cancels, cancelled_at>>

\* variant of cancel: run catches CancelledError and awaits again
cancel_swallowed ==
    /\ \/ pc = "waiting"
       \/ pc = "activity" /\ act_state = "running"
    /\ cancelled_at' = pc
    /\ UNCHANGED <<input_name, _complete, pc, user_id, trace, invocations,
                   act_state, act_value, activity_result, result, pending,
                   delivered, handled, rejected, late_cancels>>

\* cancellation reaches the run coroutine at one of its awaits (line 22 or
\* line 23): CancelledError is raised there, run has no handler for it
cancel ==
    /\ \/ pc = "waiting"
       \/ pc = "activity" /\ act_state = "running"
    /\ cancelled_at' = pc
    /\ pc' = "cancelled"
    /\ act_state' = IF pc = "activity" THEN "cancelling" ELSE act_state
    /\ UNCHANGED <<input_name, _complete, user_id, trace, invocations,
                   act_value, activity_result, result, pending, delivered,
                   handled, rejected, late_cancels>>

\* cancellation requested for an instance that has already closed
cancel_late ==
    /\ pc \in Closed
    /\ late_cancels < MaxLateCancels
    /\ late_cancels' = late_cancels + 1
    /\ UNCHANGED <<input_name, _complete, pc, user_id, trace, invocations,
                   act_state, act_value, activity_result, result, pending,
                   delivered, handled, rejected, cancelled_at>>

Next ==
    \/ run_entry
    \/ run_resume
    \/ run_return
    \/ run_raise
    \/ \E u \in Users : signal_complete(u)
    \/ deliver_signal
    \/ \E r \in Results : activity_returns(r)
    \/ \E f \in Failures : activity_fails(f)
    \/ \E v \in Results \cup Failures : activity_abandoned(v)
    \/ cancel
    \/ cancel_late

Spec == Init /\ [][Next]_vars

\* the scheduler runs every step of the instance that is ready to run
FairSpec ==
    /\ Spec
    /\ WF_vars(run_entry)
    /\ WF_vars(run_resume)
    /\ WF_vars(run_return)
    /\ WF_vars(run_raise)
    /\ WF_vars(\E u \in Users : signal_complete(u))

\* FairSpec, and the activity invoker answers every invocation in flight
LiveSpec ==
    /\ FairSpec
    /\ WF_vars(\/ \E r \in Results : activity_returns(r)
               \/ \E f \in Failures : activity_fails(f))

TypeOK ==
    /\ input_name \in Names
    /\ _complete \in BOOLEAN
    /\ pc \in {"start", "waiting", "activity"} \cup Closed
    /\ user_id \in Users \cup {"random"}
    /\ Len(invocations) \in 0..2
    /\ act_state \in {"none", "running", "returned", "failed", "cancelling",
                      "abandoned"}
    /\ act_value \in Results \cup Failures \cup {Absent}
    /\ activity_result \in Results \cup {Absent}
    /\ result \in Results \cup {Absent}
    /\ pending \in 0..MaxSignals
    /\ delivered \in 0..MaxSignals
    /\ handled \in 0..MaxSignals
    /\ rejected \in 0..MaxRejected
    /\ late_cancels \in 0..MaxLateCancels
    /\ cancelled_at \in {"none", "waiting", "activity"}

\* ------------------------------------------------------------ properties

\* positions in trace of the statements of source line l
Lines(l) == {i \in DOMAIN trace : trace[i].line = l}

\* the one invocation run makes: say_hello_activity, name, 5 minutes
TheInvocation == << <<input_name, StartToCloseTimeout>> >>

\* C1: the activity is invoked at most once per instance, and every
\* invocation is issued after a signal_complete step has set _complete
\* (so _complete was true when it was issued), whatever the interleaving of
\* signals, activity completion and activity failure.
C1_InvokedAtMostOnceAfterComplete ==
    /\ Len(invocations) <= 1
    /\ Cardinality(Lines(23)) = Len(invocations)
    /\ \A i \in Lines(23) : \E j \in Lines(33) : j < i
    /\ Len(invocations) >= 1 => _complete

C1_Witness ==
    /\ Len(invocations) = 1
    /\ handled >= 2
    /\ pc = "failed"

\* C2: as long as no signal_complete has been delivered, _complete is false,
\* the activity has not been invoked and there is neither a result nor a
\* failure; unless the instance has been cancelled it is still in WAITING
\* (run not yet begun, or suspended on the wait condition).
C2_NoSignalStaysWaiting ==
    delivered = 0 =>
        /\ ~_complete
        /\ invocations = <<>>
        /\ act_state = "none"
        /\ result = Absent
        /\ pc \notin {"activity", "completed", "failed"}
        /\ pc # "cancelled" => pc \in {"start", "waiting"}

C2_Witness ==
    /\ delivered = 0
    /\ pc = "waiting"
    /\ Lines(22) # {}

\* C3: once exactly one signal_complete has been delivered, the scheduler
\* being fair, the instance comes to have, and keeps, exactly one activity
\* invocation, made with the name given to start and a timeout of five
\* minutes; the only other outcome is that the instance was cancelled first.
C3_OneSignalOneInvocation ==
    (delivered = 1) ~> [](pc = "cancelled" \/ invocations = TheInvocation)

C3_Witness ==
    /\ delivered = 1
    /\ handled = 1
    /\ invocations = TheInvocation
    /\ pc = "activity"

\* C4: whatever the number k >= 1 of signal_complete steps and wherever they
\* fall, _complete is true, there is at most one resumption and one
\* invocation, and a completed instance has exactly one invocation and the
\* activity's value as result; a signal_complete step taken when _complete is
\* already true changes neither the flag, the position of run, the
\* invocations nor the result.
C4_SignalIdempotent ==
    /\ [](handled >= 1 =>
            /\ _complete
            /\ Len(invocations) <= 1
            /\ Cardinality(Lines(23)) <= 1
            /\ pc = "completed" =>
                   invocations = TheInvocation /\ result = act_value)
    /\ [][(handled' = handled + 1 /\ _complete) =>
            UNCHANGED <<_complete, pc, invocations, act_state, result>>]_vars

C4_Witness ==
    /\ handled = MaxSignals
    /\ pc = "completed"
    /\ result = act_value
    /\ \E i \in Lines(33) : \E j \in Lines(23) : j < i

\* C5: a completed instance has as result exactly the string the activity
\* invoker returned, and an instance has a result only if it is completed.
C5_ResultIsActivityResult ==
    /\ pc = "completed" =>
          /\ act_state = "returned"
          /\ act_value \in Results
          /\ result = act_value
    /\ result # Absent => pc = "completed"

C5_Witness ==
    /\ pc = "completed"
    /\ input_name = "Alice"
    /\ result = "Hello, World!"

\* C6: when the activity invocation has failed or timed out the instance is
\* not completed, has no result and has made exactly one invocation, and,
\* the scheduler being fair, it ends and stays in the failed state with no
\* result and no second invocation.
C6_ActivityFailureFailsInstance ==
    /\ [](act_state = "failed" =>
            /\ act_value \in Failures
            /\ pc \in {"activity", "failed"}
            /\ result = Absent
            /\ Len(invocations) = 1)
    /\ [](pc = "failed" => act_state = "failed")
    /\ (act_state = "failed") ~>
            [](pc = "failed" /\ result = Absent /\ Len(invocations) = 1)

C6_Witness ==
    /\ pc = "failed"
    /\ act_state = "failed"
    /\ act_value = "timeout"
    /\ handled >= 1

\* C7 (as stated): the first log of run precedes every log of the signal
\* handler, and every log of the signal handler precedes the post-activity
\* log of run.
C7_LogsStrictlyOrdered ==
    \A s \in Lines(32) :
        /\ \E e \in Lines(17) : e < s
        /\ \A x \in Lines(26) : s < x

\* C7 (amended): run logs at most once at entry and at most once after the
\* activity, the entry log first; every log of the signal handler precedes
\* the post-activity log, also for signals handled while the activity is in
\* flight.  (A signal handled before the first step of run logs before the
\* entry log.)
C7_LogsOrderedAmended ==
    /\ Cardinality(Lines(17)) <= 1
    /\ Cardinality(Lines(26)) <= 1
    /\ \A x \in Lines(26) : \E e \in Lines(17) : e < x
    /\ \A s \in Lines(32) : \A x \in Lines(26) : s < x
    /\ Cardinality(Lines(32)) = handled

C7_Witness ==
    /\ pc = "completed"
    /\ \E s1 \in Lines(32) : \E e \in Lines(17) : \E i \in Lines(23) :
       \E s2 \in Lines(32) : \E x \in Lines(26) :
           s1 < e /\ e < i /\ i < s2 /\ s2 < x

\* C8: an instance cancelled while suspended on the wait condition is closed
\* without any activity invocation, also when signals are sent afterwards or
\* were already handled; an instance cancelled while the activity is in
\* flight is closed without being completed and without a result.
C8_CancelAborts ==
    /\ cancelled_at = "waiting" =>
          /\ pc = "cancelled"
          /\ invocations = <<>>
          /\ act_state = "none"
          /\ result = Absent
    /\ cancelled_at = "activity" =>
          /\ pc = "cancelled"
          /\ result = Absent
          /\ activity_result = Absent
          /\ Len(invocations) = 1
    /\ pc = "cancelled" => cancelled_at # "none"

C8_Witness ==
    /\ cancelled_at = "waiting"
    /\ _complete
    /\ pending > 0
    /\ rejected >= 1

\* C9: user_id is written at most once, exactly once when run has taken its
\* first step, always by run at line 19 with the value "random", after the
\* first log of run and before run first evaluates the wait condition; a
\* signal_complete step never writes it.
C9_IdentityWrittenOnce ==
    /\ [](/\ Cardinality(Lines(19)) <= 1
          /\ pc # "start" => Cardinality(Lines(19)) = 1 /\ user_id = "random"
          /\ \A i \in DOMAIN trace :
                trace[i].op = "set_user_id" =>
                    /\ trace[i].line = 19
                    /\ trace[i].by = "run"
                    /\ trace[i].val = "random"
          /\ \A w \in Lines(19) :
                /\ \E e \in Lines(17) : e < w
                /\ \E c \in Lines(22) : w < c
                /\ \A c \in Lines(22) : w < c)
    /\ [][handled' = handled + 1 =>
            /\ user_id' = user_id
            /\ Lines(19)' = Lines(19)]_vars

C9_Witness ==
    /\ pc = "completed"
    /\ Cardinality(Lines(19)) = 1
    /\ \E s \in Lines(32) : \E w \in Lines(19) : s < w
    /\ \E s \in Lines(32) : \E w \in Lines(19) : w < s

\* C10: once run has returned or failed (or was cancelled) no step changes
\* the instance: its position, _complete, result, invocations, logged
\* statements; and a result, once assigned, is never assigned again.
C10_ClosedIsImmutable ==
    [][/\ pc \in Closed => UNCHANGED instance
       /\ result # Absent => result' = result]_vars

C10_Witness ==
    /\ pc = "completed"
    /\ result # Absent
    /\ pending > 0
    /\ rejected >= 1
    /\ late_cancels >= 1

\* C11: no lost wakeup.  A flag set by a signal_complete step taken before
\* run has begun survives the first segment of run; whenever run is
\* suspended on the wait condition with the flag set it can resume with no
\* further signal; and, the scheduler being fair, an instance whose flag was
\* set before run began comes to invoke the activity (unless it is cancelled
\* first).
C11_NoLostWakeup ==
    /\ [][(pc = "start" /\ _complete) => _complete']_vars
    /\ [](pc = "waiting" /\ _complete => ENABLED run_resume)
    /\ (pc = "start" /\ _complete) ~>
            (pc = "cancelled" \/ invocations = TheInvocation)

C11_Witness ==
    /\ delivered = 1
    /\ handled = 1
    /\ invocations = TheInvocation
    /\ \E s \in Lines(33) : \E e \in Lines(17) : s < e

\* C12: the statements of one step are never split by a statement of the
\* other routine: the two statements of a signal_complete step are adjacent
\* in the execution order, so are the three statements of the first segment
\* of run and the two of its last segment; and a signal_complete step is
\* taken only before run has begun or while run is suspended at one of its
\* two awaits.
C12_StepsAtomic ==
    /\ [](/\ \A i \in Lines(32) : i + 1 \in Lines(33)
          /\ \A i \in Lines(33) : i - 1 \in Lines(32)
          /\ \A i \in Lines(17) : i + 1 \in Lines(19) /\ i + 2 \in Lines(22)
          /\ \A i \in Lines(22) : i - 1 \in Lines(19) /\ i - 2 \in Lines(17)
          /\ \A i \in Lines(26) : i + 1 \in Lines(28)
          /\ \A i \in Lines(28) : i - 1 \in Lines(26))
    /\ [][handled' = handled + 1 =>
            /\ pc \in {"start", "waiting", "activity"}
            /\ pc' = pc]_vars

C12_Witness ==
    /\ pc = "completed"
    /\ \E w \in Lines(22) : \E s \in Lines(32) : \E i \in Lines(23) :
           w < s /\ s < i
    /\ \E i \in Lines(23) : \E s \in Lines(32) : \E x \in Lines(26) :
           i < s /\ s < x

\* C13: _complete is false in the constructed instance, and once it is true
\* no step (of run, of the signal handler, of the activity or of the host)
\* makes it false again.
C13_CompleteMonotonic ==
    /\ _complete = FALSE
    /\ [][_complete => _complete']_vars

C13_Witness ==
    /\ _complete
    /\ handled >= 2
    /\ pc = "completed"
    /\ rejected >= 1

\* C14: a signal_complete step sets _complete and emits its log line and
\* nothing else: name, result, invocations, the activity, user_id and the
\* position of run are unchanged; the invocations change only in the step of
\* run that leaves the wait, and the result only in the step of run that
\* returns.
C14_SignalFrame ==
    /\ [][handled' = handled + 1 =>
            /\ _complete'
            /\ Len(trace') = Len(trace) + 2
            /\ SubSeq(trace', 1, Len(trace)) = trace
            /\ trace'[Len(trace) + 1].line = 32
            /\ trace'[Len(trace) + 2].line = 33
            /\ UNCHANGED <<input_name, result, activity_result, invocations,
                           act_state, act_value, user_id, pc,
                           cancelled_at>>]_vars
    /\ [][invocations' # invocations =>
            /\ handled' = handled
            /\ pc = "waiting"
            /\ pc' = "activity"]_vars
    /\ [][result' # result =>
            /\ handled' = handled
            /\ pc = "activity"
            /\ pc' = "completed"]_vars

C14_Witness ==
    /\ pc = "activity"
    /\ act_state = "running"
    /\ invocations = TheInvocation
    /\ result = Absent
    /\ \E i \in Lines(23) : \E s \in Lines(33) : i < s

\* C15: an instance is completed exactly when it has a result, a failed
\* instance has none, and once a signal_complete has been delivered, the
\* scheduler being fair and the activity invoker answering, the instance
\* ends and stays either completed with a result or failed without one
\* (or cancelled, when a cancellation reached it first).
C15_SignalledInstanceTerminates ==
    /\ [](pc = "completed" <=> result # Absent)
    /\ [](pc = "failed" => result = Absent /\ act_state = "failed")
    /\ (delivered >= 1) ~>
          [](\/ pc = "completed" /\ result # Absent
             \/ pc = "failed" /\ result = Absent
             \/ pc = "cancelled")

C15_Witness ==
    /\ delivered >= 1
    /\ pc = "failed"
    /\ result = Absent
    /\ pending > 0

====
